---- MODULE Spec2Model ----
(***************************************************************************)
(* Model of the comment-thread reconstruction and change-cache logic of    *)
(* src/src/lib/gerritCache.ts (GerritChangeCache, DocumentCommentManager,  *)
(* CommentManager) and of uniqueComplex and createAwaitingInterval in      *)
(* src/src/lib/util.ts.                                                    *)
(*                                                                         *)
(* The specifications share the variables:                                 *)
(*   SpecCache      the GerritChangeCache under set / has / get calls      *)
(*   SpecBuild      _buildThreadsFromComments on bounded comment lists     *)
(*   SpecReorder    the builder on a comment list and on a reordering      *)
(*   SpecLoad       one DocumentCommentManager under loadComments          *)
(*   SpecRegistry   the same with registrations and dispose interleaved    *)
(*   SpecDirectory  the CommentManager under editor events                 *)
(*   SpecInterval   one interval made by createAwaitingInterval            *)
(***************************************************************************)
EXTENDS Integers, Sequences, FiniteSets, TLC

(***************************************************************************)
(* Bounds of the model.                                                    *)
(***************************************************************************)
MaxWith == 2        \* longest withValues array passed to the cache
MaxSets == 2        \* number of GerritChangeCache.set calls in a run
MaxComments == 3    \* longest comment list given to the thread builder
MaxId == 2          \* comment ids are 1..MaxId
MaxTime == 2        \* updated timestamps are 1..MaxTime
MaxFetched == 2     \* comments plus drafts the server returns for a file
MaxDispose == 2     \* dispose() calls on one DocumentCommentManager
MaxRegister == 1    \* registerNewThread / registerComments calls on one manager
MaxManagers == 3    \* DocumentCommentManager instances the CommentManager creates
MaxRuns == 6        \* invocations of the action of an awaiting interval

(***************************************************************************)
(* Generic sequence helpers.                                               *)
(***************************************************************************)
SeqsUpTo(S, n) == UNION {[1..k -> S] : k \in 0..n}

Range(s) == {s[i] : i \in 1..Len(s)}

(***************************************************************************)
(* JavaScript values that stand for "no value".                            *)
(***************************************************************************)
null == "null"
undefined == "undefined"

(***************************************************************************)
(* GerritChangeCache (gerritCache.ts 4-42)                                 *)
(*                                                                         *)
(* A GerritAPIWith token is a string, modelled as the sequence of its      *)
(* characters; characters are numbers ordered as UTF-16 code units. Dot is *)
(* the character '.', which is part of no token.                           *)
(***************************************************************************)
Dot == 0

GerritAPIWith == {<<1>>, <<1, 2>>}

ChangeIds == {"c1", "c2"}

GerritChange == {"e1", "e2"}

WithArrays == SeqsUpTo(GerritAPIWith, MaxWith)

\* String comparison a < b as Array.prototype.sort does it when given no
\* comparator: lexicographic on code units, a proper prefix first.
RECURSIVE StrLess(_, _)
StrLess(a, b) ==
    IF b = <<>> THEN FALSE
    ELSE IF a = <<>> THEN TRUE
    ELSE IF Head(a) # Head(b) THEN Head(a) < Head(b)
    ELSE StrLess(Tail(a), Tail(b))

\* Array.prototype.sort(): a stable sort ascending in StrLess (each element
\* is inserted after the elements that are not greater).
RECURSIVE InsertStr(_, _)
InsertStr(x, s) ==
    IF s = <<>> THEN <<x>>
    ELSE IF StrLess(x, Head(s)) THEN <<x>> \o s
    ELSE <<Head(s)>> \o InsertStr(x, Tail(s))

RECURSIVE ArraySort(_)
ArraySort(s) ==
    IF s = <<>> THEN <<>>
    ELSE InsertStr(s[Len(s)], ArraySort(SubSeq(s, 1, Len(s) - 1)))

\* Array.prototype.join(sep): the elements' characters with sep between them.
RECURSIVE ArrayJoin(_, _)
ArrayJoin(s, sep) ==
    IF s = <<>> THEN <<>>
    ELSE IF Len(s) = 1 THEN s[1]
    ELSE s[1] \o sep \o ArrayJoin(Tail(s), sep)

\* GerritChangeCache._withValuesToString
_withValuesToString(withValues) == ArrayJoin(ArraySort(withValues), <<Dot>>)

\* Map.prototype.has / get / set on a map modelled as a function whose
\* domain is the set of keys present.
MapHas(m, k) == k \in DOMAIN m

MapGet(m, k) == IF k \in DOMAIN m THEN m[k] ELSE undefined

MapSet(m, k, v) == [x \in (DOMAIN m) \cup {k} |-> IF x = k THEN v ELSE m[x]]

EmptyMap == [x \in {} |-> undefined]

\* Mutant of set: an existing entry is kept (first write wins).
setKeepsExisting(cache, changeId, withValues, change) ==
    LET c1 == IF ~MapHas(cache, changeId)
              THEN MapSet(cache, changeId, EmptyMap) ELSE cache
        key == _withValuesToString(withValues)
    IN  IF MapHas(c1[changeId], key) THEN c1
        ELSE MapSet(c1, changeId, MapSet(c1[changeId], key, change))

\* Mutant of set: the id's sub-store is replaced by one that holds the new
\* entry alone.
setReplacesSubStore(cache, changeId, withValues, change) ==
    MapSet(cache, changeId,
           MapSet(EmptyMap, _withValuesToString(withValues), change))

\* GerritChangeCache.set: the value of _cache after the call.
set(cache, changeId, withValues, change) ==
    LET c1 == IF ~MapHas(cache, changeId)
              THEN MapSet(cache, changeId, EmptyMap) ELSE cache
    IN  MapSet(c1, changeId,
               MapSet(c1[changeId], _withValuesToString(withValues), change))

\* GerritChangeCache.has
has(cache, changeId, withValues) ==
    /\ MapHas(cache, changeId)
    /\ MapHas(cache[changeId], _withValuesToString(withValues))

\* Mutant of get: the sub-store is read without the check that it exists,
\* so an unknown id gives undefined.
getWithoutIdCheck(cache, changeId, withValues) ==
    IF ~MapHas(cache, changeId) THEN undefined
    ELSE MapGet(cache[changeId], _withValuesToString(withValues))

\* GerritChangeCache.get
get(cache, changeId, withValues) ==
    IF ~MapHas(cache, changeId) THEN null
    ELSE MapGet(cache[changeId], _withValuesToString(withValues))

(***************************************************************************)
(* uniqueComplex (util.ts 50-60). key is the key function, given as a      *)
(* function on the items of arr.                                           *)
(***************************************************************************)
\* Mutant of uniqueComplex: a later item with the same key replaces the one
\* already pushed.
uniqueComplexKeepsLast(arr, key) ==
    LET RECURSIVE loop(_, _)
        loop(i, items) ==
            IF i > Len(arr) THEN items
            ELSE LET item == arr[i]
                     keyValue == key[item]
                 IN  loop(i + 1,
                          Append(SelectSeq(items, LAMBDA x : key[x] # keyValue), item))
    IN  loop(1, <<>>)

uniqueComplex(arr, key) ==
    LET RECURSIVE loop(_, _)
        loop(i, items) ==
            IF i > Len(arr) THEN items
            ELSE LET item == arr[i]
                     keyValue == key[item]
                     alreadyPushed == \E j \in 1..Len(items) : key[items[j]] = keyValue
                 IN  loop(i + 1, IF ~alreadyPushed THEN Append(items, item) ELSE items)
    IN  loop(1, <<>>)

(***************************************************************************)
(* Comments (GerritCommentBase). An optional field that is absent holds    *)
(* undefined (side) or 0 (inReplyTo, line, range); ids and line numbers of *)
(* real comments are positive. range holds the start line of the comment's *)
(* range.                                                                  *)
(***************************************************************************)
LEFT == "LEFT"
RIGHT == "RIGHT"

\* The key function (c) => c.id on the items of arr.
IdKey(arr) == [c \in Range(arr) |-> c.id]

(***************************************************************************)
(* A function of the program either returns a value or throws.             *)
(***************************************************************************)
Return(v) == [thrown |-> FALSE, value |-> v]

Throw == [thrown |-> TRUE, value |-> <<>>]

\* DateTime.sortByDate(values, INCREASING_TIME, (c) => c.updated): the values
\* in ascending order of updated, values with the same updated in their
\* original order.
RECURSIVE InsertByDate(_, _)
InsertByDate(x, s) ==
    IF s = <<>> THEN <<x>>
    ELSE IF x.updated < Head(s).updated THEN <<x>> \o s
    ELSE <<Head(s)>> \o InsertByDate(x, Tail(s))

RECURSIVE sortByDate(_)
sortByDate(values) ==
    IF values = <<>> THEN <<>>
    ELSE InsertByDate(values[Len(values)],
                      sortByDate(SubSeq(values, 1, Len(values) - 1)))

(***************************************************************************)
(* DocumentCommentManager._getAllRepliesTo (gerritCache.ts 117-130).       *)
(* depth is the number of nested calls on the call stack. Every call is on *)
(* an element of allComments (or on the root, one of them too), and a call *)
(* on a comment nested inside a call on an equal comment repeats it        *)
(* without end: the recursion is deeper than Len(allComments) exactly when *)
(* it never returns, and the engine then throws RangeError (call stack     *)
(* size exceeded).                                                         *)
(***************************************************************************)
RECURSIVE _getAllRepliesToAt(_, _, _)
RECURSIVE RepliesOfEach(_, _, _)

\* for (const reply of directReplies) replies.push(..._getAllRepliesTo(reply))
RepliesOfEach(directReplies, allComments, depth) ==
    IF directReplies = <<>> THEN Return(<<>>)
    ELSE LET first == _getAllRepliesToAt(Head(directReplies), allComments, depth)
         IN  IF first.thrown THEN Throw
             ELSE LET rest == RepliesOfEach(Tail(directReplies), allComments, depth)
                  IN  IF rest.thrown THEN Throw
                      ELSE Return(first.value \o rest.value)

_getAllRepliesToAt(comment, allComments, depth) ==
    IF depth > Len(allComments) THEN Throw
    ELSE LET directReplies ==
                 SelectSeq(allComments, LAMBDA c : c.inReplyTo = comment.id)
             nested == RepliesOfEach(directReplies, allComments, depth + 1)
         IN  IF nested.thrown THEN Throw
             ELSE LET replies == <<comment>> \o directReplies \o nested.value
                  IN  Return(uniqueComplex(replies, IdKey(replies)))

_getAllRepliesTo(comment, allComments) ==
    _getAllRepliesToAt(comment, allComments, 1)

(***************************************************************************)
(* DocumentCommentManager._buildThreadsFromComments (gerritCache.ts        *)
(* 132-145): filter the roots, map each to its replies, map each to the    *)
(* sorted thread.                                                          *)
(***************************************************************************)
RECURSIVE MapGetAllRepliesTo(_, _)
MapGetAllRepliesTo(roots, comments) ==
    IF roots = <<>> THEN Return(<<>>)
    ELSE LET t == _getAllRepliesTo(Head(roots), comments)
         IN  IF t.thrown THEN Throw
             ELSE LET rest == MapGetAllRepliesTo(Tail(roots), comments)
                  IN  IF rest.thrown THEN Throw
                      ELSE Return(<<t.value>> \o rest.value)

\* Mutant of _buildThreadsFromComments: the threads are not sorted.
buildThreadsUnsorted(comments) ==
    MapGetAllRepliesTo(SelectSeq(comments, LAMBDA c : c.inReplyTo = 0), comments)

_buildThreadsFromComments(comments) ==
    LET roots == SelectSeq(comments, LAMBDA c : c.inReplyTo = 0)
        mapped == MapGetAllRepliesTo(roots, comments)
    IN  IF mapped.thrown THEN Throw
        ELSE Return([i \in 1..Len(mapped.value) |-> sortByDate(mapped.value[i])])

\* The comment lists the builder is applied to: every placement of ids,
\* parents and timestamps, on comments that all have a line.
BuilderComments ==
    {[id |-> i, inReplyTo |-> r, updated |-> u, side |-> undefined,
      range |-> 0, line |-> 1] : i \in 1..MaxId, r \in 0..MaxId, u \in 1..MaxTime}

(***************************************************************************)
(* DocumentCommentManager (gerritCache.ts 91-241). A vscode Range is       *)
(* modelled by its start line; a live thread (GerritCommentThread) by the  *)
(* record of the comment array and range it was created with. Live threads *)
(* are identified by their index in the controller's list of created       *)
(* threads.                                                                *)
(***************************************************************************)
NoRange == [isNull |-> TRUE, startLine |-> 0]

VSCodeRange(startLine) == [isNull |-> FALSE, startLine |-> startLine]

\* GerritComment.gerritRangeToVSCodeRange: Gerrit lines are 1-based, the
\* editor's are 0-based.
gerritRangeToVSCodeRange(range) == VSCodeRange(range - 1)

\* DocumentCommentManager.getCommentRange
getCommentRange(comment) ==
    IF comment.range # 0 THEN gerritRangeToVSCodeRange(comment.range)
    ELSE IF comment.line # 0 THEN VSCodeRange(comment.line - 1)
    ELSE NoRange

\* The filter of loadComments, line 163: === binds tighter than ??, so the
\* callback returns c.side when the comment has one (a non-empty string,
\* which filter takes as true) and RIGHT === fileMeta.side when it has none.
thisSideFilter(c, meta) ==
    IF c.side # undefined THEN c.side # "" ELSE RIGHT = meta.side

\* First loop of loadComments (168-176): one more thread on the line of each
\* thread's first comment, -1 when that comment has no range.
RECURSIVE countThreadLines(_, _)
countThreadLines(threadLineCount, threads) ==
    IF threads = <<>> THEN threadLineCount
    ELSE LET range == getCommentRange(Head(threads)[1])
             line == IF range.isNull THEN -1 ELSE range.startLine
             old == IF line \in DOMAIN threadLineCount
                    THEN threadLineCount[line] ELSE 0
         IN  countThreadLines(MapSet(threadLineCount, line, old + 1), Tail(threads))

\* DocumentCommentManager.createCommentThread: null (no thread created) or
\* the thread the controller creates and GerritCommentThread.from wraps.
createCommentThread(comments) ==
    LET range == getCommentRange(comments[1])
    IN  IF range.isNull THEN <<>>
        ELSE <<[comments |-> comments, range |-> range]>>

\* Mutant of registerThreadComments: only the thread's first comment is
\* entered.
registerFirstCommentOnly(threadMap, thread, commentThread) ==
    MapSet(threadMap, thread[1].id, commentThread)

\* thread.forEach((comment) => this._threadMap.set(comment.id, commentThread))
RECURSIVE registerThreadComments(_, _, _)
registerThreadComments(threadMap, thread, commentThread) ==
    IF thread = <<>> THEN threadMap
    ELSE registerThreadComments(MapSet(threadMap, Head(thread).id, commentThread),
                                Tail(thread), commentThread)

\* Second loop of loadComments (177-184) from thread number k on. state is
\* the pair of _threadMap and the controller's list of created threads.
RECURSIVE createAndRegister(_, _, _)
createAndRegister(state, threads, k) ==
    IF k > Len(threads) THEN state
    ELSE LET created == createCommentThread(threads[k])
         IN  IF created = <<>> THEN createAndRegister(state, threads, k + 1)
             ELSE LET live == Append(state.live, created[1])
                  IN  createAndRegister(
                          [threadMap |-> registerThreadComments(
                                             state.threadMap, threads[k], Len(live)),
                           live |-> live],
                          threads, k + 1)

\* The null that getThreadByComment returns in place of a live thread (live
\* threads are numbered from 1).
NoThread == 0

\* DocumentCommentManager.getThreadByComment
getThreadByComment(threadMap, comment) ==
    IF comment.id \in DOMAIN threadMap THEN threadMap[comment.id] ELSE NoThread

\* DocumentCommentManager.getLineThreadCount
getLineThreadCount(threadLineCount, lineNumber) ==
    IF lineNumber \in DOMAIN threadLineCount THEN threadLineCount[lineNumber] ELSE 0

\* What the server can hold for the file: comments of every id, parent and
\* side, with no position (a comment on the file) or with a line. The
\* server's timestamps are set by withTimes.
Anchors == {[range |-> 0, line |-> 0], [range |-> 0, line |-> 1]}

Sides == {undefined, LEFT, RIGHT}

ServerComments ==
    {[id |-> i, inReplyTo |-> r, updated |-> 0, side |-> s,
      range |-> a.range, line |-> a.line] :
        i \in 1..MaxId, r \in 0..MaxId, s \in Sides, a \in Anchors}

\* The comments cs as the server returns them when it already returned
\* `before` others: the server lists comments in any order of ids, parents
\* and positions, and each was written after the ones listed before it.
withTimes(cs, before) ==
    [k \in 1..Len(cs) |-> [cs[k] EXCEPT !.updated = before + k]]

\* FileProvider.tryGetFileMeta(document): no metadata, or the side of the
\* diff the document shows.
FileMetas == {[isNull |-> TRUE, side |-> undefined],
              [isNull |-> FALSE, side |-> LEFT],
              [isNull |-> FALSE, side |-> RIGHT]}

VARIABLES
    _cache,     \* GerritChangeCache._cache
    nSets,      \* number of set calls made so far
    lastSet,    \* history: <<changeId, key>> -> entity of the latest set there
    call,       \* the call on the cache whose result its caller holds
    input,      \* the comment list given to the thread builder
    built,      \* the builder's outcome on input: not run, returned or thrown
    uniq,       \* the outcome of uniqueComplex on input, by id: not run or done
    fileMeta,   \* FileProvider.tryGetFileMeta of the manager's document
    pc,         \* where the manager's loadComments() call stands
    comments,   \* loadComments: the fetched comments of the file
    draftComments,      \* loadComments: the fetched drafts of the file
    threads,            \* loadComments: the threads it built
    _threadMap,         \* DocumentCommentManager._threadMap
    _threadLineCount,   \* DocumentCommentManager._threadLineCount
    commentThreads,     \* the live threads the comment controller created
    reordered,          \* the builder's outcome on a reordering of input
    disposeLog,         \* per dispose() call on the manager: thread.dispose() calls it made
    nRegister,          \* number of registerNewThread / registerComments calls so far
    disposals,          \* live thread -> number of dispose() calls it received
    disposedInFlight,   \* dispose() ran while loadComments() was suspended
    managers,           \* CommentManager: the DocumentCommentManager instances created
    _commentManagers,   \* CommentManager._commentManagers
    _commentManagersByFilePath,     \* CommentManager._commentManagersByFilePath
    event,              \* the latest event the CommentManager handled, with its result
    timer,              \* createAwaitingInterval: the closure's timer variable
    armed,              \* timeouts set and neither fired nor cleared
    nTimers,            \* number of setTimeout calls so far
    running,            \* invocations of action whose promise is pending
    started,            \* number of invocations of action so far
    sinceDispose        \* what happened after the handle's dispose() first returned

cacheVars == <<_cache, nSets, lastSet, call>>

buildVars == <<input, built, uniq, reordered>>

loadVars == <<fileMeta, pc, comments, draftComments, threads,
              _threadMap, _threadLineCount, commentThreads>>

registryVars == <<disposeLog, nRegister, disposals, disposedInFlight>>

directoryVars == <<managers, _commentManagers, _commentManagersByFilePath, event>>

intervalVars == <<timer, armed, nTimers, running, started, sinceDispose>>

vars == <<_cache, nSets, lastSet, call, input, built, uniq,
          fileMeta, pc, comments, draftComments, threads,
          _threadMap, _threadLineCount, commentThreads,
          reordered, disposeLog, nRegister, disposals, disposedInFlight,
          managers, _commentManagers, _commentManagersByFilePath, event,
          timer, armed, nTimers, running, started, sinceDispose>>

NoCall == [op |-> "none", changeId |-> "c1", withValues |-> <<>>,
           change |-> undefined, ret |-> undefined]

NotBuilt == [state |-> "none", threads |-> <<>>]

CacheIdle ==
    /\ _cache = EmptyMap
    /\ nSets = 0
    /\ lastSet = EmptyMap
    /\ call = NoCall

NotRun == [state |-> "none", value |-> <<>>]

BuildIdle ==
    /\ input = <<>>
    /\ built = NotBuilt
    /\ uniq = NotRun
    /\ reordered = NotBuilt

\* A DocumentCommentManager right after its constructor.
NewManager ==
    /\ pc = "new"
    /\ comments = <<>>
    /\ draftComments = <<>>
    /\ threads = <<>>
    /\ _threadMap = EmptyMap
    /\ _threadLineCount = EmptyMap
    /\ commentThreads = <<>>

LoadIdle ==
    /\ fileMeta = [isNull |-> TRUE, side |-> undefined]
    /\ NewManager

\* The CommentManager before any event: its two maps are empty.
NoEvent == [op |-> "none", document |-> "none", returned |-> <<>>,
            existing |-> FALSE, created |-> 0]

DirectoryIdle ==
    /\ managers = <<>>
    /\ _commentManagers = EmptyMap
    /\ _commentManagersByFilePath = EmptyMap
    /\ event = NoEvent

\* The value of `timer` when it holds no timeout (undefined); the timeouts
\* that setTimeout returns are numbered from 1.
NoTimer == 0

\* No dispose() of the interval's handle has returned yet.
NotDisposed == [disposed |-> FALSE, inFlight |-> FALSE, started |-> 0, timers |-> 0]

\* createAwaitingInterval has not been called.
IntervalIdle ==
    /\ timer = NoTimer
    /\ armed = {}
    /\ nTimers = 0
    /\ running = 0
    /\ started = 0
    /\ sinceDispose = NotDisposed

\* No dispose() and no registration has been called on the manager.
RegistryIdle ==
    /\ disposeLog = <<>>
    /\ nRegister = 0
    /\ disposals = EmptyMap
    /\ disposedInFlight = FALSE

InitCache ==
    /\ CacheIdle
    /\ BuildIdle
    /\ LoadIdle
    /\ RegistryIdle
    /\ DirectoryIdle
    /\ IntervalIdle

\* A caller runs cache.set(changeId, withValues, change).
Set ==
    /\ call.op = "none"
    /\ nSets < MaxSets
    /\ \E changeId \in ChangeIds, withValues \in WithArrays, change \in GerritChange :
        /\ _cache' = set(_cache, changeId, withValues, change)
        /\ lastSet' = MapSet(lastSet, <<changeId, _withValuesToString(withValues)>>, change)
        /\ call' = [op |-> "set", changeId |-> changeId, withValues |-> withValues,
                    change |-> change, ret |-> undefined]
    /\ nSets' = nSets + 1
    /\ UNCHANGED buildVars
    /\ UNCHANGED loadVars
    /\ UNCHANGED <<registryVars, directoryVars, intervalVars>>

\* A caller runs cache.has(changeId, withValues).
Has ==
    /\ call.op = "none"
    /\ \E changeId \in ChangeIds, withValues \in WithArrays :
        call' = [op |-> "has", changeId |-> changeId, withValues |-> withValues,
                 change |-> undefined, ret |-> has(_cache, changeId, withValues)]
    /\ UNCHANGED <<_cache, nSets, lastSet>>
    /\ UNCHANGED buildVars
    /\ UNCHANGED loadVars
    /\ UNCHANGED <<registryVars, directoryVars, intervalVars>>

\* A caller runs cache.get(changeId, withValues).
Get ==
    /\ call.op = "none"
    /\ \E changeId \in ChangeIds, withValues \in WithArrays :
        call' = [op |-> "get", changeId |-> changeId, withValues |-> withValues,
                 change |-> undefined, ret |-> get(_cache, changeId, withValues)]
    /\ UNCHANGED <<_cache, nSets, lastSet>>
    /\ UNCHANGED buildVars
    /\ UNCHANGED loadVars
    /\ UNCHANGED <<registryVars, directoryVars, intervalVars>>

\* The caller has used the result of its call and goes on.
Continue ==
    /\ call.op # "none"
    /\ call' = NoCall
    /\ UNCHANGED <<_cache, nSets, lastSet>>
    /\ UNCHANGED buildVars
    /\ UNCHANGED loadVars
    /\ UNCHANGED <<registryVars, directoryVars, intervalVars>>

NextCache == Set \/ Has \/ Get \/ Continue

SpecCache == InitCache /\ [][NextCache]_vars

(***************************************************************************)
(* The thread builder as a function: a comment list is chosen and          *)
(* _buildThreadsFromComments is applied to it.                             *)
(***************************************************************************)
InitBuild ==
    /\ CacheIdle
    /\ \E n \in 0..MaxComments : input \in [1..n -> BuilderComments]
    /\ built = NotBuilt
    /\ uniq = NotRun
    /\ reordered = NotBuilt
    /\ LoadIdle
    /\ RegistryIdle
    /\ DirectoryIdle
    /\ IntervalIdle

\* A caller runs uniqueComplex(input, (c) => c.id).
Unique ==
    /\ uniq.state = "none"
    /\ uniq' = [state |-> "done", value |-> uniqueComplex(input, IdKey(input))]
    /\ UNCHANGED <<input, built, reordered>>
    /\ UNCHANGED cacheVars
    /\ UNCHANGED loadVars
    /\ UNCHANGED <<registryVars, directoryVars, intervalVars>>

\* A caller runs _buildThreadsFromComments(input).
Build ==
    /\ built.state = "none"
    /\ LET r == _buildThreadsFromComments(input)
       IN  built' = IF r.thrown THEN [state |-> "thrown", threads |-> <<>>]
                    ELSE [state |-> "returned", threads |-> r.value]
    /\ UNCHANGED <<input, uniq, reordered>>
    /\ UNCHANGED cacheVars
    /\ UNCHANGED loadVars
    /\ UNCHANGED <<registryVars, directoryVars, intervalVars>>

NextBuild == Build \/ Unique

SpecBuild == InitBuild /\ [][NextBuild]_vars

(***************************************************************************)
(* The thread builder applied to a comment list and to a reordering of it. *)
(***************************************************************************)
\* The orders in which a list of n comments can be given.
Orderings(n) == {p \in [1..n -> 1..n] : \A i, j \in 1..n : p[i] = p[j] => i = j}

\* A caller runs _buildThreadsFromComments on the comments of input in
\* another order.
BuildReordered ==
    /\ reordered.state = "none"
    /\ \E p \in Orderings(Len(input)) :
        LET r == _buildThreadsFromComments([i \in 1..Len(input) |-> input[p[i]]])
        IN  reordered' = IF r.thrown THEN [state |-> "thrown", threads |-> <<>>]
                         ELSE [state |-> "returned", threads |-> r.value]
    /\ UNCHANGED <<input, built, uniq>>
    /\ UNCHANGED cacheVars
    /\ UNCHANGED loadVars
    /\ UNCHANGED <<registryVars, directoryVars, intervalVars>>

NextReorder == Build \/ BuildReordered

SpecReorder == InitBuild /\ [][NextReorder]_vars

(***************************************************************************)
(* One DocumentCommentManager and its loadComments() call (gerritCache.ts  *)
(* 147-186). The call suspends at the two fetches; what follows the second *)
(* fetch runs without suspension.                                          *)
(***************************************************************************)
InitLoad ==
    /\ CacheIdle
    /\ BuildIdle
    /\ fileMeta \in FileMetas
    /\ NewManager
    /\ RegistryIdle
    /\ DirectoryIdle
    /\ IntervalIdle

\* loadComments() is called: it returns at once for a document with no file
\* metadata, and else starts the fetch of the comments.
LoadCommentsCall ==
    /\ pc = "new"
    /\ pc' = IF fileMeta.isNull THEN "done" ELSE "awaitComments"
    /\ UNCHANGED <<fileMeta, comments, draftComments, threads,
                   _threadMap, _threadLineCount, commentThreads>>
    /\ UNCHANGED <<cacheVars, buildVars>>
    /\ UNCHANGED <<registryVars, directoryVars, intervalVars>>

\* Mutant of CommentsFetched: the lines of the threads of the fetched
\* comments are counted as soon as the comments arrive, before the drafts are
\* fetched.
CommentsFetchedAndCounted ==
    /\ pc = "awaitComments"
    /\ \E n \in 0..MaxFetched :
         \E fetched \in [1..n -> ServerComments] :
            /\ comments' = withTimes(fetched, 0)
            /\ _threadLineCount' =
                  countThreadLines(_threadLineCount,
                                   [k \in 1..Len(fetched) |-> <<withTimes(fetched, 0)[k]>>])
    /\ pc' = "awaitDrafts"
    /\ UNCHANGED <<fileMeta, draftComments, threads, _threadMap, commentThreads>>
    /\ UNCHANGED <<cacheVars, buildVars>>
    /\ UNCHANGED <<registryVars, directoryVars, intervalVars>>

\* GerritComment.getForMeta resolves: the comments of the file, [] when the
\* file has none; then the fetch of the drafts starts.
CommentsFetched ==
    /\ pc = "awaitComments"
    /\ \E n \in 0..MaxFetched :
         \E fetched \in [1..n -> ServerComments] : comments' = withTimes(fetched, 0)
    /\ pc' = "awaitDrafts"
    /\ UNCHANGED <<fileMeta, draftComments, threads,
                   _threadMap, _threadLineCount, commentThreads>>
    /\ UNCHANGED <<cacheVars, buildVars>>
    /\ UNCHANGED <<registryVars, directoryVars, intervalVars>>

\* One of the two fetches rejects: loadComments() rejects.
FetchRejected ==
    /\ pc \in {"awaitComments", "awaitDrafts"}
    /\ pc' = "rejected"
    /\ UNCHANGED <<fileMeta, comments, draftComments, threads,
                   _threadMap, _threadLineCount, commentThreads>>
    /\ UNCHANGED <<cacheVars, buildVars>>
    /\ UNCHANGED <<registryVars, directoryVars, intervalVars>>

\* GerritDraftComment.getForMeta resolves and loadComments() runs to its end:
\* filter by side, build the threads, count the lines, create and register
\* the threads. A throw of the builder rejects the call before any of the
\* maps is written.
DraftsFetched ==
    /\ pc = "awaitDrafts"
    /\ \E n \in 0..(MaxFetched - Len(comments)) :
         \E fetched \in [1..n -> ServerComments] :
            LET drafts == withTimes(fetched, Len(comments))
                allComments == comments \o drafts
                thisSideComments ==
                    SelectSeq(allComments, LAMBDA c : thisSideFilter(c, fileMeta))
                builtThreads == _buildThreadsFromComments(thisSideComments)
                kept == SelectSeq(builtThreads.value, LAMBDA t : Len(t) # 0)
                done == createAndRegister(
                            [threadMap |-> _threadMap, live |-> commentThreads],
                            kept, 1)
            IN  /\ draftComments' = drafts
                /\ IF builtThreads.thrown
                   THEN /\ pc' = "rejected"
                        /\ UNCHANGED <<threads, _threadMap, _threadLineCount,
                                       commentThreads>>
                   ELSE /\ pc' = "done"
                        /\ threads' = kept
                        /\ _threadLineCount' = countThreadLines(_threadLineCount, kept)
                        /\ _threadMap' = done.threadMap
                        /\ commentThreads' = done.live
    /\ UNCHANGED <<fileMeta, comments>>
    /\ UNCHANGED <<cacheVars, buildVars>>
    /\ UNCHANGED <<registryVars, directoryVars, intervalVars>>

NextLoad == LoadCommentsCall \/ CommentsFetched \/ FetchRejected \/ DraftsFetched

SpecLoad == InitLoad /\ [][NextLoad]_vars

(***************************************************************************)
(* One DocumentCommentManager under loadComments(), the registrations of   *)
(* threads made interactively and dispose() (gerritCache.ts 188-201,       *)
(* 235-240). The other methods run at any time, also while loadComments()  *)
(* is suspended at a fetch.                                                *)
(***************************************************************************)
\* this._threadMap.values(): the thread of every entry, so a thread comes
\* once for each comment id that leads to it.
ValuesCount(threadMap, thread) ==
    Cardinality({k \in DOMAIN threadMap : threadMap[k] = thread})

\* Mutant of dispose: the threads are disposed and the map is not cleared.
disposeWithoutClear(threadMap, counts) ==
    [threadMap |-> threadMap,
     disposals |->
        [t \in (DOMAIN counts) \cup {threadMap[k] : k \in DOMAIN threadMap} |->
            (IF t \in DOMAIN counts THEN counts[t] ELSE 0) + ValuesCount(threadMap, t)],
     calls |-> Cardinality(DOMAIN threadMap)]

\* DocumentCommentManager.dispose: thread.dispose() on every value of the
\* map, then clear(). counts is the number of dispose() calls each live
\* thread has received; calls is the number this call makes.
dispose(threadMap, counts) ==
    [threadMap |-> EmptyMap,
     disposals |->
        [t \in (DOMAIN counts) \cup {threadMap[k] : k \in DOMAIN threadMap} |->
            (IF t \in DOMAIN counts THEN counts[t] ELSE 0) + ValuesCount(threadMap, t)],
     calls |-> Cardinality(DOMAIN threadMap)]

\* DocumentCommentManager.registerNewThread
registerNewThread(threadMap, thread, threadComments) ==
    registerThreadComments(threadMap, threadComments, thread)

\* DocumentCommentManager.registerComments
registerComments(threadMap, thread, newComments) ==
    registerThreadComments(threadMap, newComments, thread)

\* The comments a user writes in the editor: new roots on line 1, of any id.
UserComments ==
    {[id |-> i, inReplyTo |-> 0, updated |-> 0, side |-> undefined,
      range |-> 0, line |-> 1] : i \in 1..MaxId}

\* manager.dispose() is called.
Dispose ==
    /\ Len(disposeLog) < MaxDispose
    /\ LET d == dispose(_threadMap, disposals)
       IN  /\ _threadMap' = d.threadMap
           /\ disposals' = d.disposals
           /\ disposeLog' = Append(disposeLog, d.calls)
    /\ disposedInFlight' = (disposedInFlight \/ pc \in {"awaitComments", "awaitDrafts"})
    /\ UNCHANGED <<fileMeta, pc, comments, draftComments, threads,
                   _threadLineCount, commentThreads, nRegister>>
    /\ UNCHANGED <<cacheVars, buildVars, directoryVars, intervalVars>>

\* The user starts a thread in the editor with a first comment: the
\* controller has created the thread and registerNewThread(thread) is called.
RegisterNewThread ==
    /\ nRegister < MaxRegister
    /\ \E c \in UserComments :
        /\ commentThreads' = Append(commentThreads,
                                    [comments |-> <<c>>, range |-> getCommentRange(c)])
        /\ _threadMap' = registerNewThread(_threadMap, Len(commentThreads) + 1, <<c>>)
    /\ nRegister' = nRegister + 1
    /\ UNCHANGED <<fileMeta, pc, comments, draftComments, threads, _threadLineCount,
                   disposeLog, disposals, disposedInFlight>>
    /\ UNCHANGED <<cacheVars, buildVars, directoryVars, intervalVars>>

\* The user adds a comment to a live thread: registerComments(thread, comment)
\* is called.
RegisterComments ==
    /\ nRegister < MaxRegister
    /\ \E thread \in 1..Len(commentThreads), c \in UserComments :
        _threadMap' = registerComments(_threadMap, thread, <<c>>)
    /\ nRegister' = nRegister + 1
    /\ UNCHANGED <<fileMeta, pc, comments, draftComments, threads, _threadLineCount,
                   commentThreads, disposeLog, disposals, disposedInFlight>>
    /\ UNCHANGED <<cacheVars, buildVars, directoryVars, intervalVars>>

NextRegistry ==
    \/ LoadCommentsCall
    \/ CommentsFetched
    \/ FetchRejected
    \/ DraftsFetched
    \/ RegisterNewThread
    \/ RegisterComments
    \/ Dispose

SpecRegistry == InitLoad /\ [][NextRegistry]_vars

(***************************************************************************)
(* CommentManager (gerritCache.ts 243-346): the directory of the managers  *)
(* of the open documents. A DocumentCommentManager instance is its index   *)
(* in `managers`, the list of the instances created; of an instance the    *)
(* directory model keeps the document, the number of loadComments() calls  *)
(* made on it, of those still suspended and of those that ran to the end,  *)
(* and the number of dispose() calls.                                      *)
(***************************************************************************)
\* The documents of the editor: the two sides of the diff of one file, a
\* file of another change, and a document that is no Gerrit file.
Documents == {"before", "after", "other", "plain"}

\* FileProvider.tryGetFileMeta(uri)
tryGetFileMeta(uri) ==
    CASE uri = "before" -> [isNull |-> FALSE, filePath |-> "f", side |-> LEFT]
      [] uri = "after" -> [isNull |-> FALSE, filePath |-> "f", side |-> RIGHT]
      [] uri = "other" -> [isNull |-> FALSE, filePath |-> "g", side |-> RIGHT]
      [] OTHER -> [isNull |-> TRUE, filePath |-> "", side |-> undefined]

\* FileProvider.fileMetaToKey(meta): one key for each file and side.
fileMetaToKey(meta) == <<meta.filePath, meta.side>>

\* Map.prototype.delete
MapDelete(m, k) == [x \in (DOMAIN m) \ {k} |-> m[x]]

\* new DocumentCommentManager(document, controller)
NewDocumentCommentManager(document) ==
    [document |-> document, loadCalls |-> 0, inFlight |-> 0, populated |-> 0,
     disposeCalls |-> 0]

\* manager.loadComments() up to its first await: the call returns at once
\* for a document with no file metadata and else suspends at the fetch.
loadCommentsCalled(manager) ==
    IF tryGetFileMeta(manager.document).isNull
    THEN [manager EXCEPT !.loadCalls = @ + 1]
    ELSE [manager EXCEPT !.loadCalls = @ + 1, !.inFlight = @ + 1]

\* The state of the CommentManager as one value.
Directory ==
    [managers |-> managers,
     _commentManagers |-> _commentManagers,
     _commentManagersByFilePath |-> _commentManagersByFilePath]

\* Mutant of provideCommentingRanges: the manager the key already has is
\* kept and loaded again.
provideCommentingRangesReusing(dir, document) ==
    LET meta == tryGetFileMeta(document)
        key == fileMetaToKey(meta)
    IN  IF meta.isNull THEN dir
        ELSE IF MapHas(dir._commentManagers, key)
        THEN [dir EXCEPT !.managers[dir._commentManagers[key]] = loadCommentsCalled(@)]
        ELSE LET manager == Len(dir.managers) + 1
                 byPath == IF ~MapHas(dir._commentManagersByFilePath, meta.filePath)
                           THEN MapSet(dir._commentManagersByFilePath, meta.filePath, <<>>)
                           ELSE dir._commentManagersByFilePath
             IN  [managers |->
                      Append(dir.managers,
                             loadCommentsCalled(NewDocumentCommentManager(document))),
                  _commentManagers |-> MapSet(dir._commentManagers, key, manager),
                  _commentManagersByFilePath |->
                      MapSet(byPath, meta.filePath, Append(byPath[meta.filePath], manager))]

\* provideCommentingRanges (270-301), with the part of the async function it
\* starts that runs before the first suspension: a new manager is created,
\* entered in both maps and its loadComments() is called.
provideCommentingRanges(dir, document) ==
    LET meta == tryGetFileMeta(document)
        manager == Len(dir.managers) + 1
        byPath == IF ~MapHas(dir._commentManagersByFilePath, meta.filePath)
                  THEN MapSet(dir._commentManagersByFilePath, meta.filePath, <<>>)
                  ELSE dir._commentManagersByFilePath
    IN  IF meta.isNull THEN dir
        ELSE [managers |->
                  Append(dir.managers,
                         loadCommentsCalled(NewDocumentCommentManager(document))),
              _commentManagers |->
                  MapSet(dir._commentManagers, fileMetaToKey(meta), manager),
              _commentManagersByFilePath |->
                  MapSet(byPath, meta.filePath, Append(byPath[meta.filePath], manager))]

\* The handler of onDidCloseTextDocument (258-268).
onDidCloseTextDocument(dir, document) ==
    LET meta == tryGetFileMeta(document)
        key == fileMetaToKey(meta)
    IN  IF meta.isNull THEN dir
        ELSE IF MapHas(dir._commentManagers, key)
        THEN [dir EXCEPT !.managers[dir._commentManagers[key]].disposeCalls = @ + 1,
                         !._commentManagers = MapDelete(@, key)]
        ELSE dir

\* CommentManager.getFileManagersForUri: the directory after the call, the
\* list returned, whether it is a list the directory had (existing), and the
\* manager the call created (0 when none).
getFileManagersForUri(dir, uri) ==
    LET meta == tryGetFileMeta(uri)
    IN  IF meta.isNull
        THEN [dir |-> dir, returned |-> <<>>, existing |-> FALSE, created |-> 0]
        ELSE IF MapHas(dir._commentManagersByFilePath, meta.filePath)
        THEN [dir |-> dir, returned |-> dir._commentManagersByFilePath[meta.filePath],
              existing |-> TRUE, created |-> 0]
        ELSE LET manager == Len(dir.managers) + 1
                 after == [dir EXCEPT
                              !.managers = Append(@, NewDocumentCommentManager(uri)),
                              !._commentManagers = MapSet(@, fileMetaToKey(meta), manager)]
             IN  [dir |-> after,
                  returned |-> IF MapHas(after._commentManagersByFilePath, meta.filePath)
                               THEN after._commentManagersByFilePath[meta.filePath]
                               ELSE <<>>,
                  existing |-> FALSE, created |-> manager]

\* The editor asks for the commenting ranges of a document.
ProvideCommentingRanges ==
    /\ Len(managers) < MaxManagers
    /\ \E document \in Documents :
        LET dir == provideCommentingRanges(Directory, document)
        IN  /\ managers' = dir.managers
            /\ _commentManagers' = dir._commentManagers
            /\ _commentManagersByFilePath' = dir._commentManagersByFilePath
            /\ event' = [op |-> "ranges", document |-> document, returned |-> <<>>,
                         existing |-> FALSE, created |-> 0]
    /\ UNCHANGED <<cacheVars, buildVars, loadVars, registryVars, intervalVars>>

\* The editor closes a document.
DidCloseTextDocument ==
    /\ \E document \in Documents :
        LET dir == onDidCloseTextDocument(Directory, document)
        IN  /\ managers' = dir.managers
            /\ _commentManagers' = dir._commentManagers
            /\ _commentManagersByFilePath' = dir._commentManagersByFilePath
            /\ event' = [op |-> "close", document |-> document, returned |-> <<>>,
                         existing |-> FALSE, created |-> 0]
    /\ UNCHANGED <<cacheVars, buildVars, loadVars, registryVars, intervalVars>>

\* A caller runs CommentManager.getFileManagersForUri(uri).
GetFileManagersForUri ==
    /\ Len(managers) < MaxManagers
    /\ \E uri \in Documents :
        LET r == getFileManagersForUri(Directory, uri)
        IN  /\ managers' = r.dir.managers
            /\ _commentManagers' = r.dir._commentManagers
            /\ _commentManagersByFilePath' = r.dir._commentManagersByFilePath
            /\ event' = [op |-> "get", document |-> uri, returned |-> r.returned,
                         existing |-> r.existing, created |-> r.created]
    /\ UNCHANGED <<cacheVars, buildVars, loadVars, registryVars, intervalVars>>

\* A suspended loadComments() of a manager runs to its end and populates the
\* manager's maps, whether the manager was disposed meanwhile or not.
LoadCommentsResolved ==
    /\ \E manager \in 1..Len(managers) :
        /\ managers[manager].inFlight > 0
        /\ managers' = [managers EXCEPT ![manager].inFlight = @ - 1,
                                        ![manager].populated = @ + 1]
    /\ UNCHANGED <<_commentManagers, _commentManagersByFilePath, event>>
    /\ UNCHANGED <<cacheVars, buildVars, loadVars, registryVars, intervalVars>>

\* A suspended loadComments() of a manager rejects.
LoadCommentsRejected ==
    /\ \E manager \in 1..Len(managers) :
        /\ managers[manager].inFlight > 0
        /\ managers' = [managers EXCEPT ![manager].inFlight = @ - 1]
    /\ UNCHANGED <<_commentManagers, _commentManagersByFilePath, event>>
    /\ UNCHANGED <<cacheVars, buildVars, loadVars, registryVars, intervalVars>>

NextDirectory ==
    \/ ProvideCommentingRanges
    \/ DidCloseTextDocument
    \/ GetFileManagersForUri
    \/ LoadCommentsResolved
    \/ LoadCommentsRejected

SpecDirectory == InitCache /\ [][NextDirectory]_vars

(***************************************************************************)
(* createAwaitingInterval (util.ts 5-29). A timeout is the number of the   *)
(* setTimeout call that made it. `timer` holds the latest timeout, also    *)
(* after it has fired; `armed` is what the event loop still has to fire.   *)
(* sinceDispose counts, from the first return of the handle's dispose(),   *)
(* the invocations of action started and the timeouts set, and records     *)
(* whether an invocation was pending at that moment.                       *)
(***************************************************************************)
\* The state after createAwaitingInterval(action, interval) has returned:
\* setTimer() has run once.
InitInterval ==
    /\ CacheIdle
    /\ BuildIdle
    /\ LoadIdle
    /\ RegistryIdle
    /\ DirectoryIdle
    /\ timer = 1
    /\ armed = {1}
    /\ nTimers = 1
    /\ running = 0
    /\ started = 0
    /\ sinceDispose = NotDisposed

\* A timeout fires: its callback starts action().
TimerFires ==
    /\ started < MaxRuns
    /\ \E t \in armed : armed' = armed \ {t}
    /\ running' = running + 1
    /\ started' = started + 1
    /\ sinceDispose' = IF sinceDispose.disposed
                       THEN [sinceDispose EXCEPT !.started = @ + 1]
                       ELSE sinceDispose
    /\ UNCHANGED <<timer, nTimers>>
    /\ UNCHANGED <<cacheVars, buildVars, loadVars, registryVars, directoryVars>>

\* The promise of action() resolves: then(setTimer) runs setTimer.
ActionResolved ==
    /\ running > 0
    /\ running' = running - 1
    /\ nTimers' = nTimers + 1
    /\ timer' = nTimers + 1
    /\ armed' = armed \cup {nTimers + 1}
    /\ sinceDispose' = IF sinceDispose.disposed
                       THEN [sinceDispose EXCEPT !.timers = @ + 1]
                       ELSE sinceDispose
    /\ UNCHANGED started
    /\ UNCHANGED <<cacheVars, buildVars, loadVars, registryVars, directoryVars>>

\* The promise of action() rejects: then(setTimer) has no rejection handler,
\* so nothing runs.
ActionRejected ==
    /\ running > 0
    /\ running' = running - 1
    /\ UNCHANGED <<timer, armed, nTimers, started, sinceDispose>>
    /\ UNCHANGED <<cacheVars, buildVars, loadVars, registryVars, directoryVars>>

\* The handle's dispose() is called (lines 22-27). clearTimeout of a timeout
\* that has fired does nothing.
DisposeInterval ==
    /\ IF timer # NoTimer
       THEN /\ armed' = armed \ {timer}
            /\ timer' = NoTimer
       ELSE UNCHANGED <<timer, armed>>
    /\ sinceDispose' = IF sinceDispose.disposed THEN sinceDispose
                       ELSE [sinceDispose EXCEPT !.disposed = TRUE,
                                                 !.inFlight = (running > 0)]
    /\ UNCHANGED <<nTimers, running, started>>
    /\ UNCHANGED <<cacheVars, buildVars, loadVars, registryVars, directoryVars>>

NextInterval == TimerFires \/ ActionResolved \/ ActionRejected \/ DisposeInterval

SpecInterval == InitInterval /\ [][NextInterval]_vars

(***************************************************************************)
(* Properties of the change cache, checked under SpecCache.                *)
(***************************************************************************)
KeyOf(changeId, withValues) == <<changeId, _withValuesToString(withValues)>>

IdSeenBySet(changeId) == \E k \in DOMAIN lastSet : k[1] = changeId

\* C4: get(id, opts) returns the entity of the most recent set on the same id
\* and the same normalized key: right after set(id, opts, e), get(id, opts)
\* is e, and of two sets on one key the later one is the one get returns.
GetReturnsLatestSet ==
    /\ call.op = "set" => get(_cache, call.changeId, call.withValues) = call.change
    /\ (call.op = "get" /\ KeyOf(call.changeId, call.withValues) \in DOMAIN lastSet)
            => call.ret = lastSet[KeyOf(call.changeId, call.withValues)]

\* Two sets were made on one key and a get on that key returned an entity.
GetAfterTwoSetsOnOneKey ==
    /\ nSets = 2
    /\ Cardinality(DOMAIN lastSet) = 1
    /\ call.op = "get"
    /\ call.ret \in GerritChange

\* C5: get is three-way: it returns null exactly for an id no set has seen,
\* undefined exactly for an id that has an entry but none under the key of
\* opts, and the cached entity otherwise; has is true exactly in the last
\* case.
GetIsThreeWay ==
    /\ call.op = "get" =>
        LET k == KeyOf(call.changeId, call.withValues)
        IN  /\ call.ret = null <=> ~IdSeenBySet(call.changeId)
            /\ call.ret = undefined <=> (IdSeenBySet(call.changeId) /\ k \notin DOMAIN lastSet)
            /\ call.ret \in GerritChange <=> k \in DOMAIN lastSet
            /\ k \in DOMAIN lastSet => call.ret = lastSet[k]
    /\ call.op = "has" =>
        /\ call.ret <=> KeyOf(call.changeId, call.withValues) \in DOMAIN lastSet
        /\ call.ret <=> get(_cache, call.changeId, call.withValues) \in GerritChange
    /\ \A changeId \in DOMAIN _cache : DOMAIN _cache[changeId] # {}

\* All three results of get can be had from one cache: one id was never set,
\* another has an entry, and the get on that one returned undefined.
GetGaveUndefinedBesideNull ==
    /\ call.op = "get"
    /\ call.ret = undefined
    /\ \E other \in ChangeIds, w \in WithArrays :
        /\ get(_cache, other, w) = null
        /\ get(_cache, call.changeId, w) \in GerritChange

\* C6: option collections with the same elements, whatever their order and
\* however often an element occurs, have the same key, so the entry set
\* under one is returned by get and reported by has under the other.
SameElementsSameEntry ==
    call.op = "set" =>
        \A other \in WithArrays :
            Range(other) = Range(call.withValues) =>
                /\ _withValuesToString(other) = _withValuesToString(call.withValues)
                /\ get(_cache, call.changeId, other) = call.change
                /\ has(_cache, call.changeId, other)

(***************************************************************************)
(* Properties of the thread builder, checked under SpecBuild.              *)
(***************************************************************************)
InThread(c, t) == \E j \in 1..Len(t) : t[j].id = c.id

ThreadsWith(c, ts) == {k \in 1..Len(ts) : InThread(c, ts[k])}

\* The comments reached from the comments of S by following inReplyTo at
\* most n times.
RECURSIVE AncestorsWithin(_, _, _)
AncestorsWithin(S, all, n) ==
    IF n = 0 THEN S
    ELSE AncestorsWithin(
             S \cup {d \in Range(all) : \E c \in S : c.inReplyTo # 0 /\ d.id = c.inReplyTo},
             all, n - 1)

\* The roots of all that the inReplyTo chain of c reaches.
RootsReached(c, all) ==
    {r \in AncestorsWithin({c}, all, Len(all)) : r.inReplyTo = 0}

DistinctIds(all) == \A i, j \in 1..Len(all) : all[i].id = all[j].id => i = j

RootsAndRepliesPlaced(all, ts) ==
    \A c \in Range(all) :
        IF c.inReplyTo = 0
        THEN Cardinality(ThreadsWith(c, ts)) = 1
        ELSE /\ ThreadsWith(c, ts) = {} <=> RootsReached(c, all) = {}
             /\ \A k \in 1..Len(ts) :
                   InThread(c, ts[k]) <=> \E r \in RootsReached(c, all) : InThread(r, ts[k])

\* C1: for every comment list the builder returns threads in which every
\* root is in exactly one thread, every reply is in the thread of the root
\* its inReplyTo chain reaches, and a reply is in no thread exactly when its
\* chain reaches no root of the input.
BuilderPlacesEveryComment ==
    built.state # "none" =>
        /\ built.state = "returned"
        /\ RootsAndRepliesPlaced(input, built.threads)

\* The same on the lists whose comment ids are pairwise distinct, where the
\* builder always returns.
BuilderPlacesCommentsOfDistinctIds ==
    (built.state # "none" /\ DistinctIds(input)) =>
        /\ built.state = "returned"
        /\ RootsAndRepliesPlaced(input, built.threads)

\* C7: on every comment list the builder returns, without throwing, threads
\* made of comments of the list.
BuilderAlwaysReturns ==
    built.state # "none" =>
        /\ built.state = "returned"
        /\ \A k \in 1..Len(built.threads) : Range(built.threads[k]) \subseteq Range(input)

\* C8: every returned thread is non-empty and in non-decreasing order of
\* updated.
ThreadsNonEmptyAndSorted ==
    built.state = "returned" =>
        \A k \in 1..Len(built.threads) :
            LET t == built.threads[k]
            IN  /\ Len(t) >= 1
                /\ \A i \in 1..(Len(t) - 1) : t[i].updated <= t[i + 1].updated

\* A returned thread starts with a reply that is older than the thread's
\* root: the sort moved it to the front.
ThreadStartsWithOlderReply ==
    /\ built.state = "returned"
    /\ \E k \in 1..Len(built.threads) :
        LET t == built.threads[k]
        IN  /\ Len(t) >= 2
            /\ t[1].inReplyTo # 0
            /\ \E i \in 2..Len(t) : t[i].inReplyTo = 0 /\ t[1].updated < t[i].updated

\* The items of arr whose key no earlier item has, in the order of arr.
FirstIndexes(arr) == {i \in 1..Len(arr) : \A j \in 1..(i - 1) : arr[j].id # arr[i].id}

NthOf(S, n) == CHOOSE i \in S : Cardinality({j \in S : j < i}) = n - 1

FirstOccurrences(arr) ==
    [n \in 1..Cardinality(FirstIndexes(arr)) |-> arr[NthOf(FirstIndexes(arr), n)]]

\* C9: no returned thread has two entries with one comment id, and
\* uniqueComplex returns the first item of each key in the order of its
\* argument.
ThreadsHaveNoDuplicateIds ==
    /\ built.state = "returned" =>
        \A k \in 1..Len(built.threads) :
            \A i, j \in 1..Len(built.threads[k]) :
                built.threads[k][i].id = built.threads[k][j].id => i = j
    /\ uniq.state = "done" => uniq.value = FirstOccurrences(input)

\* The input has a root and two different replies to it with one id, so the
\* id is reached twice from the root; the builder returned one thread of two
\* comments and uniqueComplex dropped the second reply.
DuplicateReplyIdDropped ==
    /\ built.state = "returned"
    /\ uniq.state = "done"
    /\ Len(input) = 3
    /\ input[1].inReplyTo = 0
    /\ input[2].inReplyTo = input[1].id
    /\ input[3].inReplyTo = input[1].id
    /\ input[2].id = input[3].id
    /\ input[2].id # input[1].id
    /\ input[2] # input[3]
    /\ Len(built.threads) = 1
    /\ Len(built.threads[1]) = 2
    /\ uniq.value = <<input[1], input[2]>>

(***************************************************************************)
(* Properties of loadComments, checked under SpecLoad.                     *)
(***************************************************************************)
Loaded == pc = "done" /\ ~fileMeta.isNull

AllFetched == comments \o draftComments

\* The side a comment is on: the target (right) side when it names none.
SideOf(c) == IF c.side = undefined THEN RIGHT ELSE c.side

\* C2: after loadComments every comment of a registered thread is on the
\* side of the document, a comment with no side counting as RIGHT.
OnlyDocumentSideRegistered ==
    Loaded =>
        \A k \in 1..Len(commentThreads) :
            \A c \in Range(commentThreads[k].comments) : SideOf(c) = fileMeta.side

Placeable(t) == ~getCommentRange(t[1]).isNull

\* The live thread created for thread number k of loadComments: the threads
\* are created in order, and none for a thread that is not placeable.
LiveOf(k) == Cardinality({j \in 1..k : Placeable(threads[j])})

LastPlaceableWith(c) ==
    LET S == {k \in 1..Len(threads) : Placeable(threads[k]) /\ InThread(c, threads[k])}
    IN  IF S = {} THEN 0 ELSE CHOOSE k \in S : \A j \in S : j <= k

UnplaceableCommentsExcluded ==
    pc = "done" =>
        \A c \in Range(AllFetched) :
            getCommentRange(c).isNull =>
                \A k \in 1..Len(commentThreads) : c \notin Range(commentThreads[k].comments)

(***************************************************************************)
(* Properties of one manager under loadComments, registrations and         *)
(* dispose, checked under SpecRegistry.                                    *)
(***************************************************************************)
\* The live threads the manager owns: those an entry of _threadMap leads to.
OwnedThreads == {_threadMap[k] : k \in DOMAIN _threadMap}

DisposalsOf(counts, thread) == IF thread \in DOMAIN counts THEN counts[thread] ELSE 0

\* The step is a call of dispose().
DisposeStep == Len(disposeLog') = Len(disposeLog) + 1

\* No dispose() so far had a thread to dispose.
NothingDisposedYet == \A i \in 1..Len(disposeLog) : disposeLog[i] = 0

FailedLoadWritesNothing ==
    /\ [](pc = "rejected" => (threads = <<>> /\ _threadLineCount = EmptyMap))
    /\ [][(pc' # pc /\ ~(pc = "awaitDrafts" /\ pc' = "done"))
            => UNCHANGED <<_threadMap, _threadLineCount, commentThreads, disposals>>]_vars

\* A thread was registered, then loadComments() fetched one comment and the
\* fetch of the drafts failed: the call is rejected and the earlier thread is
\* all the manager holds.
DraftFetchFailedAfterRegistration ==
    /\ pc = "rejected"
    /\ Len(comments) = 1
    /\ draftComments = <<>>
    /\ nRegister = 1
    /\ Len(commentThreads) = 1
    /\ OwnedThreads = {1}
    /\ _threadLineCount = EmptyMap

\* The thread has a root comment that is anchored at the editor line.
RootAnchoredAt(thread, line) ==
    \E c \in Range(thread.comments) :
        /\ c.inReplyTo = 0
        /\ ~getCommentRange(c).isNull
        /\ getCommentRange(c).startLine = line

\* C15: in every reachable state getLineThreadCount(line) is the number of
\* threads the manager owns whose root comment is anchored at the line, 0
\* when there is none.
LineCountIsOwnedThreadsAtLine ==
    \A line \in -1..1 :
        getLineThreadCount(_threadLineCount, line) =
            Cardinality({t \in OwnedThreads : RootAnchoredAt(commentThreads[t], line)})

\* C16: when dispose() ran while loadComments() was suspended at a fetch, the
\* completion of loadComments discards what was fetched: it leaves _threadMap
\* as it is and creates no thread.
LateCompletionDiscarded ==
    [][(pc = "awaitDrafts" /\ pc' # pc /\ disposedInFlight)
            => UNCHANGED <<_threadMap, commentThreads>>]_vars

(***************************************************************************)
(* Properties of the CommentManager, checked under SpecDirectory.          *)
(***************************************************************************)
ManagersOf(document) == {m \in 1..Len(managers) : managers[m].document = document}

\* C13: after the close of a document with file metadata every manager the
\* directory created for the document is disposed and is not in the list
\* that getFileManagersForUri returns for the document's file.
ClosedDocumentHasNoManager ==
    (event.op = "close" /\ ~tryGetFileMeta(event.document).isNull) =>
        \A m \in ManagersOf(event.document) :
            /\ managers[m].disposeCalls >= 1
            /\ m \notin Range(getFileManagersForUri(Directory, event.document).returned)

\* C14: getFileManagersForUri(uri), for a uri with file metadata, returns the
\* list the directory has for the file when it has one; else it creates an
\* unloaded manager that is in the directory's list for the file and in the
\* list returned, and that the next call for the file returns as existing.
GetReturnsOrRecordsManager ==
    (event.op = "get" /\ ~tryGetFileMeta(event.document).isNull) =>
        LET filePath == tryGetFileMeta(event.document).filePath
            again == getFileManagersForUri(Directory, event.document)
        IN  IF event.existing
            THEN /\ event.created = 0
                 /\ event.returned = _commentManagersByFilePath[filePath]
            ELSE /\ event.created = Len(managers)
                 /\ managers[event.created] = NewDocumentCommentManager(event.document)
                 /\ MapHas(_commentManagersByFilePath, filePath)
                 /\ event.created \in Range(_commentManagersByFilePath[filePath])
                 /\ event.created \in Range(event.returned)
                 /\ again.existing
                 /\ again.created = 0
                 /\ event.created \in Range(again.returned)

\* C17: no manager has loadComments() called on it more than once, has two
\* calls suspended, or has its maps populated more than once.
LoadCommentsAtMostOncePerManager ==
    \A m \in 1..Len(managers) :
        /\ managers[m].loadCalls <= 1
        /\ managers[m].inFlight <= 1
        /\ managers[m].populated <= 1

\* The commenting ranges of one document were asked for twice, around a
\* close of it, and getFileManagersForUri created a manager of its own: two
\* managers of the document were each loaded once, the third never.
SameDocumentLoadedInTwoManagers ==
    /\ Len(managers) = 3
    /\ managers[1].document = managers[2].document
    /\ managers[1].disposeCalls = 1
    /\ managers[1].populated = 1
    /\ managers[2].populated = 1
    /\ managers[3].loadCalls = 0

(***************************************************************************)
(* The frame of GerritChangeCache.set, checked under SpecCache on the      *)
(* steps that are a set call (the steps that change nSets); call' holds    *)
(* the arguments of the call.                                              *)
(***************************************************************************)
\* C18 as claimed: set(id, opts, e) changes the entry at (id, key of opts)
\* alone: for every other id, and for the same id under a different set of
\* options, get and has give after the call what they gave before it.
SetLeavesOtherResultsUnchanged ==
    [][nSets' # nSets =>
        \A changeId \in ChangeIds, withValues \in WithArrays :
            (changeId # call'.changeId \/ Range(withValues) # Range(call'.withValues)) =>
                /\ has(_cache', changeId, withValues) = has(_cache, changeId, withValues)
                /\ get(_cache', changeId, withValues) = get(_cache, changeId, withValues)
      ]_vars

\* C18 as amended: after set(id, opts, e), get(id, opts) is e; under every
\* other pair of id and normalized key has is unchanged, and get is unchanged
\* but for one case: for the id of the call, when it had no entry at all
\* before, get under another key was null and is undefined after the call.
\* No entity cached under another key is replaced or removed.
SetChangesOneEntryAndNullToUndefined ==
    [][nSets' # nSets =>
        /\ get(_cache', call'.changeId, call'.withValues) = call'.change
        /\ \A changeId \in ChangeIds, withValues \in WithArrays :
            KeyOf(changeId, withValues) # KeyOf(call'.changeId, call'.withValues) =>
                /\ has(_cache', changeId, withValues) = has(_cache, changeId, withValues)
                /\ get(_cache', changeId, withValues) =
                      IF changeId = call'.changeId /\ get(_cache, changeId, withValues) = null
                      THEN undefined
                      ELSE get(_cache, changeId, withValues)
      ]_vars

\* An id had an entity under one option, and another entity was then set on
\* the same id under a larger option set: both are cached, each under its key.
LargerOptionSetStoredBesideSmaller ==
    /\ call.op = "set"
    /\ nSets = 2
    /\ \E withValues \in WithArrays :
        /\ Range(withValues) # {}
        /\ Range(withValues) \subseteq Range(call.withValues)
        /\ Range(withValues) # Range(call.withValues)
        /\ get(_cache, call.changeId, withValues) \in GerritChange
        /\ get(_cache, call.changeId, withValues) # call.change
        /\ get(_cache, call.changeId, call.withValues) = call.change

(***************************************************************************)
(* Order independence of the thread builder, checked under SpecReorder.    *)
(***************************************************************************)
\* C19: on two orderings of one collection of comments the builder yields the
\* same threads, each with the same comments in the same order (the order of
\* the threads in the output is not compared).
BuilderIgnoresInputOrder ==
    (built.state # "none" /\ reordered.state # "none") =>
        /\ built.state = reordered.state
        /\ Range(built.threads) = Range(reordered.threads)

\* The same on the lists whose comment ids are pairwise distinct.
BuilderIgnoresOrderOfDistinctIds ==
    (built.state # "none" /\ reordered.state # "none" /\ DistinctIds(input)) =>
        /\ built.state = reordered.state
        /\ Range(built.threads) = Range(reordered.threads)

(***************************************************************************)
(* Properties of createAwaitingInterval, checked under SpecInterval.       *)
(***************************************************************************)
\* C20: once the handle's dispose() has returned no invocation of the action
\* starts and no timeout is set, also when an invocation was pending at the
\* dispose(); and at no time are two invocations pending or is a timeout
\* waiting while an invocation is pending.
DisposedIntervalStaysQuiet ==
    /\ sinceDispose.disposed => (sinceDispose.started = 0 /\ sinceDispose.timers = 0)
    /\ running <= 1
    /\ running = 1 => armed = {}

\* The part of it that holds: invocations never overlap, and a dispose() that
\* finds no invocation pending stops the interval.
IntervalQuietUnlessDisposedInFlight ==
    /\ (sinceDispose.disposed /\ ~sinceDispose.inFlight) =>
            (sinceDispose.started = 0 /\ sinceDispose.timers = 0 /\ armed = {})
    /\ running <= 1
    /\ running = 1 => armed = {}

====
